---- MODULE Spec2Model ----
(***************************************************************************)
(* Model of commerce/bookstore/python/load_data.py: the bookstore loader   *)
(* that bootstraps a TypeDB database (create / probe / delete-and-reload), *)
(* applies the schema and loads every CSV file one transaction per row.    *)
(*                                                                         *)
(* One run of the script is a sequential state machine: `pc` is the line   *)
(* the interpreter is at, `openRes` the stack of `with` resources that are *)
(* open, `exc` the exception that is propagating (if any).  The TypeDB     *)
(* server, the files and the user are the environment; their behaviour is  *)
(* chosen in Init (or when a file is read) and never changes in a run.     *)
(***************************************************************************)
EXTENDS Integers, Sequences, FiniteSets, TLC

\* Largest number of data rows of one CSV file.
MaxRows == 2

VARIABLES
    debug,          \* the global verbosity flag (lines 34-38)
    db0,            \* the database as the run found it
    probeFault,     \* the server fails the probe query for another reason
    userInput,      \* what the user types at the confirmation prompt
    schemaOutcome,  \* how reading and submitting ../schema.tql goes
    files,          \* files[t]: the contents file t may have when read
    db,             \* the database config.db on the server
    pc,             \* the position of the interpreter
    exc,            \* the exception propagating, "none" if none
    openRes,        \* stack of resources opened by `with` and not closed
    ops,            \* trace of the operations sent to the server
    path,           \* the branch of the main body taken
    prompted,       \* the confirmation prompt was shown
    hasData,        \* return value of has_existing_data()
    schemaResult,   \* return value of load_schema(): "none", "True", "False"
    loadStarted,    \* load_data() was called
    loadComplete,   \* "Data loading complete!" was printed
    ti,             \* index into loaders.Input_types_list
    items,          \* local `items` of load_data_into_typedb
    ri,             \* index of `item` in `items`
    skip_count,     \* local `skip_count`
    input_object,   \* local `input_object` is bound
    query,          \* local `typeql_insert_query`
    tx,             \* what happened in the current record's transaction
    reports,        \* the "Inserted x out of y" lines printed
    diag,           \* number of diagnostic (debug) lines printed
    run,            \* 1: first run of the script, 2: the re-run
    prev            \* what the first run did, kept for the re-run

envVars == <<db0, probeFault, userInput, schemaOutcome, files>>
runVars == <<db, pc, exc, openRes, ops, path, prompted, hasData, schemaResult,
             loadStarted, loadComplete, ti, items, ri, skip_count, input_object,
             query, tx, reports, diag>>
loopVars == <<ti, items, ri, skip_count, input_object, query, tx, reports>>
bootVars == <<path, prompted, hasData, schemaResult, loadStarted, loadComplete>>
vars == <<debug, envVars, runVars, run, prev>>

-----------------------------------------------------------------------------
(* The environment *)

\* loaders.Input_types_list: the builder classes, in loading order.
Input_types_list == <<"BookInput", "UserInput">>

\* The values the required column of a row can hold: missing, a fresh value,
\* a value the server refuses at insert, a value it refuses at commit.
FieldValues == {"", "new", "bad", "late"}

Items == [ISBN : FieldValues]

RowSeqs == UNION {[1..n -> Items] : n \in 0..MaxRows}

\* A data file: unreadable (open() raises), or its rows after the header.
FileValues == {[readable |-> TRUE, rows |-> r] : r \in RowSeqs}
                  \cup {[readable |-> FALSE, rows |-> <<>>]}

AbsentDb == [exists |-> FALSE, schema |-> FALSE, data |-> 0]
EmptyDb  == [exists |-> TRUE,  schema |-> FALSE, data |-> 0]
LoadedDb == [exists |-> TRUE,  schema |-> TRUE,  data |-> 1]

UserInputs == {"delete", "Delete", "no"}

SchemaOutcomes == {"ok", "defineFails", "commitFails", "noFile"}

\* The texts the prompt is meant to accept (line 125).
DeleteKeywords == {"delete", "Delete", "DELETE"}

-----------------------------------------------------------------------------
(* Pure helpers *)

\* Python truthiness of a string.
Truthy(s) == s # ""

\* Line 125: input(...) == "delete" or "Delete" or "DELETE".
\* `==` binds tighter than `or`; the string operands are tested for truth.
ConfirmWrong(typed) == typed = "Delete"
ConfirmCondition(typed) == (typed = "delete") \/ Truthy("Delete") \/ Truthy("DELETE")

\* databases().create(config.db)
DbCreateNoop(d) == d
DbCreate(d) == [exists |-> TRUE, schema |-> FALSE, data |-> 0]

\* databases().get(config.db).delete()
DbDelete(d) == AbsentDb

\* The probe query "match $b isa book, has ISBN $x; ..." raises when the
\* type book is not defined, or when the server fails it otherwise.
ProbeRaises(d, fault) == ~d.schema \/ fault

\* has_existing_data(): True from the try body, False from the except clause.
HasExistingDataAlways(raised) == TRUE
HasExistingDataResult(raised) == ~raised

\* load_schema(): True from the try body, False from the except clause.
LoadSchemaResult(outcome) == IF outcome = "ok" THEN "True" ELSE "False"

\* Lines 121, 130, 139: `if load_schema(): load_data()`.
RunsLoaderAlways(result) == TRUE
RunsLoader(result) == result = "True"

\* input_object.load(): the insert query of a row, "" (here <<>>) when the
\* row lacks the required field.
EmptyQuery == <<>>
Load(item) == IF item.ISBN = "" THEN EmptyQuery ELSE <<"insert", item.ISBN>>

\* Line 63: the statement is submitted when it is not the empty string.
Submits(q) == q # EmptyQuery

\* Lines 63-70: skip_count after the branch on the statement.
SkipAlways(q, n) == n + 1
NextSkipCount(q, n) == IF Submits(q) THEN n ELSE n + 1

\* What the server does with a submitted statement.
InsertRaises(q) == q[2] = "bad"
CommitRaises(q) == q[2] = "late"

\* __exit__ of the innermost n `with` blocks: each closes its resource.
ExitLeak(stack, n) == stack
Exit(stack, n) == SubSeq(stack, 1, Len(stack) - n)

\* Line 71: the two numbers of the tally line.
Tally(its, skipped) == [inserted |-> Len(its) - skipped, total |-> Len(its)]

NoTx == [open |-> FALSE, built |-> 0, queries |-> 0, commits |-> 0, skip0 |-> 0]

\* A raise: the exception starts to propagate.
Raise(e) == exc' = e /\ pc' = "unwind"

-----------------------------------------------------------------------------
(* Initial states *)

RunInit ==
    /\ db = db0
    /\ pc = "start"
    /\ exc = "none"
    /\ openRes = <<>>
    /\ ops = <<>>
    /\ path = "none"
    /\ prompted = FALSE
    /\ hasData = FALSE
    /\ schemaResult = "none"
    /\ loadStarted = FALSE
    /\ loadComplete = FALSE
    /\ ti = 1
    /\ items = <<>>
    /\ ri = 1
    /\ skip_count = 0
    /\ input_object = FALSE
    /\ query = EmptyQuery
    /\ tx = NoTx
    /\ reports = <<>>
    /\ diag = 0

EnvInit ==
    /\ debug \in BOOLEAN
    /\ db0 \in {AbsentDb, EmptyDb, LoadedDb}
    /\ probeFault \in BOOLEAN
    /\ userInput \in UserInputs
    /\ schemaOutcome \in SchemaOutcomes
    /\ run = 1
    /\ prev = [ops |-> <<>>, db |-> AbsentDb]

Init ==
    /\ EnvInit
    /\ files = [t \in DOMAIN Input_types_list |-> FileValues]
    /\ RunInit

-----------------------------------------------------------------------------
(* The main body, lines 116-140 *)

\* Line 116: with TypeDB.core_client(...) as client.
MainConnect ==
    /\ pc = "start"
    /\ openRes' = Append(openRes, "client")
    /\ pc' = "contains"
    /\ UNCHANGED <<debug, envVars, db, exc, ops, bootVars, loopVars, diag, run, prev>>

\* Lines 117-118, 135-136: client.databases().contains(config.db).
Contains ==
    /\ pc = "contains"
    /\ ops' = Append(ops, "contains")
    /\ IF db.exists
          THEN pc' = "has_existing_data" /\ path' = path
          ELSE pc' = "create" /\ path' = "absent"
    /\ UNCHANGED <<debug, envVars, db, exc, openRes, prompted, hasData, schemaResult,
                   loadStarted, loadComplete, loopVars, diag, run, prev>>

\* Lines 87-89: has_existing_data() opens a client, a session, a transaction.
HasExistingDataEnter ==
    /\ pc = "has_existing_data"
    /\ openRes' = openRes \o <<"client", "session", "transaction">>
    /\ pc' = "probe"
    /\ UNCHANGED <<debug, envVars, db, exc, ops, bootVars, loopVars, diag, run, prev>>

\* Lines 90-96: the probe query inside try / except.
Probe ==
    /\ pc = "probe"
    /\ ops' = Append(ops, "match")
    /\ hasData' = HasExistingDataResult(ProbeRaises(db, probeFault))
    /\ pc' = "probe_return"
    /\ UNCHANGED <<debug, envVars, db, exc, openRes, path, prompted, schemaResult,
                   loadStarted, loadComplete, loopVars, diag, run, prev>>

\* The return of has_existing_data() through its three `with` blocks, and
\* the branch of lines 119 / 123 on its value.
HasExistingDataReturn ==
    /\ pc = "probe_return"
    /\ openRes' = Exit(openRes, 3)
    /\ IF hasData
          THEN pc' = "prompt" /\ path' = path
          ELSE pc' = "load_schema" /\ path' = "empty"
    /\ UNCHANGED <<debug, envVars, db, exc, ops, prompted, hasData, schemaResult,
                   loadStarted, loadComplete, loopVars, diag, run, prev>>

\* Lines 124-125, 132-133: the confirmation prompt; exit() raises SystemExit.
Prompt ==
    /\ pc = "prompt"
    /\ prompted' = TRUE
    /\ IF ConfirmCondition(userInput)
          THEN pc' = "delete" /\ path' = "reload" /\ exc' = exc
          ELSE Raise("SystemExit") /\ path' = "refused"
    /\ UNCHANGED <<debug, envVars, db, openRes, ops, hasData, schemaResult,
                   loadStarted, loadComplete, loopVars, diag, run, prev>>

\* Lines 126-127: client.databases().get(config.db).delete().
DeleteDatabase ==
    /\ pc = "delete"
    /\ db' = DbDelete(db)
    /\ ops' = Append(ops, "delete")
    /\ pc' = "create"
    /\ UNCHANGED <<debug, envVars, exc, openRes, bootVars, loopVars, diag, run, prev>>

\* Lines 128-129, 137-138: client.databases().create(config.db).
CreateDatabase ==
    /\ pc = "create"
    /\ db' = DbCreate(db)
    /\ ops' = Append(ops, "create")
    /\ pc' = "load_schema"
    /\ UNCHANGED <<debug, envVars, exc, openRes, bootVars, loopVars, diag, run, prev>>

\* Line 116: leaving the main `with`, the end of the script.
MainExit ==
    /\ pc = "main_exit"
    /\ openRes' = Exit(openRes, 1)
    /\ pc' = "done"
    /\ UNCHANGED <<debug, envVars, db, exc, ops, bootVars, loopVars, diag, run, prev>>

\* An exception (SystemExit included) leaves the enclosing `with` blocks one
\* by one, closing each resource, and then ends the process.
Unwind ==
    /\ pc = "unwind"
    /\ IF openRes # <<>>
          THEN openRes' = Exit(openRes, 1) /\ pc' = pc
          ELSE openRes' = openRes /\ pc' = "done"
    /\ UNCHANGED <<debug, envVars, db, exc, ops, bootVars, loopVars, diag, run, prev>>

-----------------------------------------------------------------------------
(* load_schema(), lines 99-112 *)

\* Lines 100-104: client, session, the schema file, the write transaction.
LoadSchemaEnter ==
    /\ pc = "load_schema"
    /\ IF schemaOutcome = "noFile"
          THEN /\ openRes' = openRes \o <<"client", "session">>
               /\ Raise("FileNotFoundError")
               /\ ops' = ops
          ELSE /\ openRes' = openRes \o <<"client", "session", "file", "transaction">>
               /\ ops' = Append(ops, "schema_transaction")
               /\ pc' = "define"
               /\ exc' = exc
    /\ UNCHANGED <<debug, envVars, db, bootVars, loopVars, diag, run, prev>>

\* Lines 105-112: define and commit inside try / except.
LoadSchemaTry ==
    /\ pc = "define"
    /\ ops' = IF schemaOutcome = "defineFails"
                 THEN Append(ops, "define")
                 ELSE ops \o <<"define", "schema_commit">>
    /\ db' = IF schemaOutcome = "ok" THEN [db EXCEPT !.schema = TRUE] ELSE db
    /\ schemaResult' = LoadSchemaResult(schemaOutcome)
    /\ pc' = "load_schema_return"
    /\ UNCHANGED <<debug, envVars, exc, openRes, path, prompted, hasData,
                   loadStarted, loadComplete, loopVars, diag, run, prev>>

\* The return of load_schema() through its four `with` blocks, and the
\* `if load_schema():` of lines 121, 130, 139.
LoadSchemaReturn ==
    /\ pc = "load_schema_return"
    /\ openRes' = Exit(openRes, 4)
    /\ pc' = IF RunsLoader(schemaResult) THEN "load_data" ELSE "main_exit"
    /\ UNCHANGED <<debug, envVars, db, exc, ops, bootVars, loopVars, diag, run, prev>>

-----------------------------------------------------------------------------
(* load_data() and load_data_into_typedb(), lines 52-83 *)

\* Lines 77-78: the client and the data session.
LoadDataEnter ==
    /\ pc = "load_data"
    /\ openRes' = openRes \o <<"client", "session">>
    /\ loadStarted' = TRUE
    /\ ti' = 1
    /\ pc' = "for_input_type"
    /\ UNCHANGED <<debug, envVars, db, exc, ops, path, prompted, hasData, schemaResult,
                   loadComplete, items, ri, skip_count, input_object, query, tx,
                   reports, diag, run, prev>>

\* Lines 79-80, 82: the loop over the builder classes.
ForInputType ==
    /\ pc = "for_input_type"
    /\ IF ti > Len(Input_types_list)
          THEN /\ loadComplete' = TRUE
               /\ pc' = "load_data_return"
               /\ diag' = diag
          ELSE /\ loadComplete' = loadComplete
               /\ pc' = "parse"
               /\ diag' = IF debug THEN diag + 1 ELSE diag
    /\ UNCHANGED <<debug, envVars, db, exc, openRes, ops, path, prompted, hasData,
                   schemaResult, loadStarted, loopVars, run, prev>>

\* Lines 41-49, 57-58: parse_data_to_dictionaries(input).  With the flag
\* set, line 42 subscripts the builder class (input["file"]): TypeError.
Parse ==
    /\ pc = "parse"
    /\ \E f \in files[ti] :
          IF debug
             THEN Raise("TypeError")
                  /\ UNCHANGED <<items, ri, skip_count, input_object>>
             ELSE IF ~f.readable
                     THEN Raise("FileNotFoundError")
                          /\ UNCHANGED <<items, ri, skip_count, input_object>>
                     ELSE /\ items' = f.rows
                          /\ skip_count' = 0
                          /\ ri' = 1
                          /\ input_object' = FALSE
                          /\ pc' = "for_item"
                          /\ exc' = exc
    /\ UNCHANGED <<debug, envVars, db, openRes, ops, bootVars, ti, query, tx,
                   reports, diag, run, prev>>

\* Lines 59-60: the next item and its write transaction.
ForItem ==
    /\ pc = "for_item"
    /\ IF ri > Len(items)
          THEN /\ pc' = "report"
               /\ UNCHANGED <<openRes, ops, tx>>
          ELSE /\ openRes' = Append(openRes, "transaction")
               /\ ops' = Append(ops, "transaction")
               /\ tx' = [open |-> TRUE, built |-> 0, queries |-> 0, commits |-> 0,
                         skip0 |-> skip_count]
               /\ pc' = "build"
    /\ UNCHANGED <<debug, envVars, db, exc, bootVars, ti, items, ri, skip_count,
                   input_object, query, reports, diag, run, prev>>

\* Lines 61-63, 68-70: build the statement and branch on its emptiness.
Build ==
    /\ pc = "build"
    /\ input_object' = TRUE
    /\ query' = Load(items[ri])
    /\ tx' = [tx EXCEPT !.built = @ + 1]
    /\ skip_count' = NextSkipCount(query', skip_count)
    /\ pc' = IF Submits(query') THEN "insert" ELSE "tx_exit"
    /\ diag' = IF debug THEN diag + 1 ELSE diag
    /\ UNCHANGED <<debug, envVars, db, exc, openRes, ops, bootVars, ti, items, ri,
                   reports, run, prev>>

\* Line 65: transaction.query().insert(typeql_insert_query).
Insert ==
    /\ pc = "insert"
    /\ ops' = Append(ops, "insert")
    /\ tx' = [tx EXCEPT !.queries = @ + 1]
    /\ IF query # EmptyQuery /\ InsertRaises(query)
          THEN Raise("TypeDBClientException")
          ELSE pc' = "commit" /\ exc' = exc
    /\ UNCHANGED <<debug, envVars, db, openRes, bootVars, ti, items, ri, skip_count,
                   input_object, query, reports, diag, run, prev>>

\* Line 66: transaction.commit().
Commit ==
    /\ pc = "commit"
    /\ ops' = Append(ops, "commit")
    /\ IF query # EmptyQuery /\ CommitRaises(query)
          THEN Raise("TypeDBClientException") /\ UNCHANGED <<db, tx>>
          ELSE /\ db' = [db EXCEPT !.data = @ + 1]
               /\ tx' = [tx EXCEPT !.commits = @ + 1]
               /\ pc' = "tx_exit"
               /\ exc' = exc
    /\ UNCHANGED <<debug, envVars, openRes, bootVars, ti, items, ri, skip_count,
                   input_object, query, reports, diag, run, prev>>

\* Line 60: leaving the transaction's `with`, on to the next item.
TxExit ==
    /\ pc = "tx_exit"
    /\ openRes' = Exit(openRes, 1)
    /\ tx' = [tx EXCEPT !.open = FALSE]
    /\ ri' = ri + 1
    /\ pc' = "for_item"
    /\ UNCHANGED <<debug, envVars, db, exc, ops, bootVars, ti, items, skip_count,
                   input_object, query, reports, diag, run, prev>>

\* Lines 71-73: the tally line; it reads input_object, which only the loop
\* body binds (UnboundLocalError when the loop never ran).
Report ==
    /\ pc = "report"
    /\ IF input_object
          THEN /\ reports' = Append(reports, Tally(items, skip_count))
               /\ ti' = ti + 1
               /\ pc' = "for_input_type"
               /\ exc' = exc
          ELSE Raise("UnboundLocalError") /\ UNCHANGED <<reports, ti>>
    /\ UNCHANGED <<debug, envVars, db, openRes, ops, bootVars, items, ri, skip_count,
                   input_object, query, tx, diag, run, prev>>

\* Lines 82-83: leaving the session and the client of load_data().
LoadDataReturn ==
    /\ pc = "load_data_return"
    /\ openRes' = Exit(openRes, 2)
    /\ pc' = "main_exit"
    /\ UNCHANGED <<debug, envVars, db, exc, ops, bootVars, loopVars, diag, run, prev>>

-----------------------------------------------------------------------------
(* Specifications *)

Next ==
    \/ MainConnect
    \/ Contains
    \/ HasExistingDataEnter
    \/ Probe
    \/ HasExistingDataReturn
    \/ Prompt
    \/ DeleteDatabase
    \/ CreateDatabase
    \/ LoadSchemaEnter
    \/ LoadSchemaTry
    \/ LoadSchemaReturn
    \/ LoadDataEnter
    \/ ForInputType
    \/ Parse
    \/ ForItem
    \/ Build
    \/ Insert
    \/ Commit
    \/ TxExit
    \/ Report
    \/ LoadDataReturn
    \/ MainExit
    \/ Unwind

Spec == Init /\ [][Next]_vars

\* The script is started again with the flag flipped (lines 29-38), against
\* the same database, files, schema file and user input as the first run.
Rerun ==
    /\ pc = "done"
    /\ run = 1
    /\ run' = 2
    /\ prev' = [ops |-> ops, db |-> db]
    /\ debug' = ~debug
    /\ db' = db0
    /\ pc' = "start"
    /\ exc' = "none"
    /\ openRes' = <<>>
    /\ ops' = <<>>
    /\ path' = "none"
    /\ prompted' = FALSE
    /\ hasData' = FALSE
    /\ schemaResult' = "none"
    /\ loadStarted' = FALSE
    /\ loadComplete' = FALSE
    /\ ti' = 1
    /\ items' = <<>>
    /\ ri' = 1
    /\ skip_count' = 0
    /\ input_object' = FALSE
    /\ query' = EmptyQuery
    /\ tx' = NoTx
    /\ reports' = <<>>
    /\ diag' = 0
    /\ UNCHANGED envVars

InitTwoRuns ==
    /\ EnvInit
    /\ files \in [DOMAIN Input_types_list -> {{f} : f \in FileValues}]
    /\ RunInit

NextTwoRuns == Next \/ Rerun

SpecTwoRuns == InitTwoRuns /\ [][NextTwoRuns]_vars

-----------------------------------------------------------------------------
(* Properties *)

Count(op) == Cardinality({i \in DOMAIN ops : ops[i] = op})

\* The operations the Loader sends: per-record transactions and submissions.
LoaderOps == {"transaction", "insert", "commit"}

\* Every Loader operation in the trace comes after a committed schema.
LoaderAfterSchemaAt(k) ==
    \A i \in DOMAIN ops :
        ops[i] \in LoaderOps => i > k /\ ops[k] = "schema_commit"

\* C1: with an existing database that has data, when the user answers the
\* prompt with a text that is not the deletion keyword, the run never
\* deletes or creates the database, never applies the schema and opens no
\* write transaction: the database stays as the run found it.
DeclineLeavesDatabaseUnchanged ==
    (prompted /\ userInput \notin DeleteKeywords) =>
        /\ db = db0
        /\ \A i \in DOMAIN ops :
              ops[i] \notin {"delete", "create", "schema_transaction", "define",
                             "schema_commit", "transaction", "insert", "commit"}

\* C2: on every bootstrap path load_data() is started only after
\* load_schema() has returned True in the same run; when the schema
\* submission fails, no data transaction is opened and nothing is inserted.
SchemaBeforeData ==
    /\ loadStarted => schemaResult = "True" /\ Count("schema_commit") = 1 /\ db.schema
    /\ (\E i \in DOMAIN ops : ops[i] \in LoaderOps) => loadStarted
    /\ (schemaResult = "False" \/ schemaOutcome # "ok") =>
           /\ ~loadStarted
           /\ \A i \in DOMAIN ops : ops[i] \notin LoaderOps
           /\ db.data = IF Count("delete") + Count("create") > 0 THEN 0 ELSE db0.data

SchemaFailureStopsTheLoad ==
    /\ pc = "done"
    /\ path = "reload"
    /\ schemaResult = "False"
    /\ exc = "none"

\* C3: every pass over a list of parsed records, the empty list included,
\* ends by printing the tally, with inserted + skipped = total and skipped
\* the number of records whose builder returned the empty statement.
EmptyStatements(its) == Cardinality({i \in DOMAIN its : Load(its[i]) = EmptyQuery})

EveryPassReportsItsTally ==
    [][pc = "report" =>
          reports' = Append(reports, [inserted |-> Len(items) - EmptyStatements(items),
                                      total |-> Len(items)])]_vars

\* C4: for each record the builder is invoked exactly once and at most one
\* insert is submitted; an empty statement submits nothing, commits nothing
\* (the transaction is closed uncommitted) and adds exactly one to the skip
\* counter; a non-empty statement leaves the skip counter unchanged.
OneStatementPerRecord ==
    /\ tx.built <= 1 /\ tx.queries <= 1 /\ tx.commits <= tx.queries
    /\ pc \in {"insert", "commit", "tx_exit"} => tx.built = 1
    /\ pc \in {"insert", "commit"} => query # EmptyQuery /\ skip_count = tx.skip0
    /\ pc = "tx_exit" =>
          IF query = EmptyQuery
             THEN /\ tx.queries = 0 /\ tx.commits = 0
                  /\ ops[Len(ops)] = "transaction"
                  /\ skip_count = tx.skip0 + 1
             ELSE /\ tx.queries = 1 /\ tx.commits = 1
                  /\ skip_count = tx.skip0
    /\ (pc = "unwind" /\ tx.open) => tx.built = 1 /\ skip_count = tx.skip0

SecondRecordSkipped ==
    /\ pc = "tx_exit"
    /\ ri = 2
    /\ query = EmptyQuery
    /\ Load(items[1]) # EmptyQuery

\* C5: the verbosity flag only gates diagnostic printing: two runs from the
\* same database, files and user input, one with the flag and one without,
\* send the same operations to the server and leave the same database.
VerbosityOnlyGatesPrinting ==
    (run = 2 /\ pc = "done") => (ops = prev.ops /\ db = prev.db)

\* C6: on every exit path every client, session and transaction opened
\* during the run is closed when the process ends.
AllClosedAtExit ==
    pc = "done" => openRes = <<>>

ExitByInsertException ==
    /\ pc = "done"
    /\ exc = "TypeDBClientException"
    /\ Count("transaction") = 2
    /\ openRes = <<>>

\* C7: with the database absent the run sends exactly one create, then the
\* schema, then (the schema applied) the Loader; it never deletes, never
\* prompts; after a run that completes the database exists and the probe
\* query would succeed.
AbsentPathOrder ==
    path = "absent" =>
        /\ ~prompted /\ Count("delete") = 0 /\ Count("match") = 0
        /\ Count("create") = (IF pc = "create" THEN 0 ELSE 1)
        /\ pc # "create" => ops[2] = "create" /\ db.exists
        /\ \A i \in DOMAIN ops :
              ops[i] \in {"schema_transaction", "define", "schema_commit"} => i > 2
        /\ LoaderAfterSchemaAt(5)
        /\ loadStarted => schemaResult = "True"
        /\ (pc = "done" /\ schemaResult = "True") => loadStarted
        /\ (pc = "done" /\ loadComplete) =>
              db.exists /\ ~ProbeRaises(db, FALSE) /\ exc = "none"

AbsentRunCompleted ==
    /\ path = "absent"
    /\ pc = "done"
    /\ loadComplete
    /\ db.data = Len(Input_types_list) * MaxRows

\* C8: with existing data and the answer "delete", the run deletes the
\* database, creates it anew, applies the schema and then runs the Loader,
\* in this order; the Loader never runs against the old database.
ReloadOrder ==
    (hasData /\ prompted /\ userInput = "delete") =>
        /\ path = "reload"
        /\ pc # "delete" => ops[3] = "delete" /\ Count("delete") = 1
        /\ pc \notin {"delete", "create"} => ops[4] = "create" /\ Count("create") = 1
        /\ \A i \in DOMAIN ops :
              ops[i] \in {"schema_transaction", "define", "schema_commit"} => i > 4
        /\ LoaderAfterSchemaAt(7)
        /\ loadStarted => schemaResult = "True" /\ db.data <= Count("commit")
        /\ loadComplete => db.data = Count("commit")
        /\ (pc = "done" /\ schemaResult = "True") => loadStarted

ReloadCompleted ==
    /\ userInput = "delete"
    /\ path = "reload"
    /\ pc = "done"
    /\ loadComplete
    /\ db.data = 1

\* C9: when the database exists and the probe query fails, whatever the
\* reason, has_existing_data() returns False and the run applies the schema
\* and runs the Loader on the existing database, without a prompt, a delete
\* or a create.
ProbeFailureMeansEmpty ==
    (db0.exists /\ ProbeRaises(db0, probeFault)
        /\ pc \notin {"start", "contains", "has_existing_data", "probe"}) =>
        /\ ~hasData /\ ~prompted
        /\ exc \notin {"SystemExit"}
        /\ Count("delete") = 0 /\ Count("create") = 0
        /\ db.exists /\ db.data >= db0.data
        /\ pc # "probe_return" => path = "empty"
        /\ pc \notin {"probe_return", "load_schema"} =>
              schemaOutcome = "noFile" \/ ops[3] = "schema_transaction"
        /\ LoaderAfterSchemaAt(5)
        /\ (pc = "done" /\ schemaResult = "True") => loadStarted

FaultyProbeThenLoaded ==
    /\ db0 = LoadedDb
    /\ probeFault
    /\ pc = "done"
    /\ loadComplete
    /\ db.data = 2

\* C10: a failed submission (insert or commit) of one record's statement is
\* caught for that record and never aborts the pass: the remaining records
\* and entity types are still processed and every pass prints its tally.
RecordInsertErrorNeverAborts ==
    (pc = "done" /\ exc = "TypeDBClientException") =>
        /\ loadComplete
        /\ Len(reports) = Len(Input_types_list)

====
